---------------------------- MODULE Spec2Model ----------------------------
(***************************************************************************)
(* A model of loadcsvs.py, the bulk loader that imports forex tick data    *)
(* from zip archives of CSV files into one MySQL table per                 *)
(* (pair, year, month).                                                    *)
(*                                                                         *)
(* Text (file names, timestamps) is a sequence of one-character strings,   *)
(* so that split, endswith, substring search and strptime are modelled by  *)
(* what they do to the characters.                                         *)
(***************************************************************************)
EXTENDS Naturals, Integers, Sequences, FiniteSets, TLC

(***************************************************************************)
(* Bounds of the model.                                                    *)
(***************************************************************************)
\* Rows per chunk handed to one executemany.  The source reads chunks of
\* chunk_size = 100000 rows (loadcsvs.py line 99); the model reads the same
\* way with a small chunk so that archives of a few rows span several batches.
ChunkSize == 2
\* How many store statements may fail by a fault of the store in one behaviour.
MaxFaults == 1
\* How many times the script is started over the same directory.
MaxRuns == 2

(***************************************************************************)
(* Text helpers: Python's str methods used by the script.                  *)
(***************************************************************************)
Digits == {"0","1","2","3","4","5","6","7","8","9"}

DigitVal(c) ==
  CASE c = "0" -> 0 [] c = "1" -> 1 [] c = "2" -> 2 [] c = "3" -> 3
    [] c = "4" -> 4 [] c = "5" -> 5 [] c = "6" -> 6 [] c = "7" -> 7
    [] c = "8" -> 8 [] c = "9" -> 9

DigitChar(n) ==
  CASE n = 0 -> "0" [] n = 1 -> "1" [] n = 2 -> "2" [] n = 3 -> "3"
    [] n = 4 -> "4" [] n = 5 -> "5" [] n = 6 -> "6" [] n = 7 -> "7"
    [] n = 8 -> "8" [] n = 9 -> "9"

\* str.endswith(suffix)
EndsWith(s, suffix) ==
  /\ Len(s) >= Len(suffix)
  /\ SubSeq(s, Len(s) - Len(suffix) + 1, Len(s)) = suffix

\* `sub in s` for strings
Contains(s, sub) ==
  \E i \in 1..(Len(s) + 1) :
    /\ i + Len(sub) - 1 <= Len(s)
    /\ SubSeq(s, i, i + Len(sub) - 1) = sub

\* positions of the separator character c in s
Positions(s, c) == {i \in 1..Len(s) : s[i] = c}

\* str.split(c) for a one-character separator: the pieces between the
\* occurrences of c, empty pieces included; always at least one piece
RECURSIVE SplitFrom(_, _, _)
SplitFrom(s, c, start) ==
  LET later == {i \in Positions(s, c) : i >= start} IN
  IF later = {}
  THEN << SubSeq(s, start, Len(s)) >>
  ELSE LET p == CHOOSE i \in later : \A j \in later : i <= j
       IN  << SubSeq(s, start, p - 1) >> \o SplitFrom(s, c, p + 1)

Split(s, c) == SplitFrom(s, c, 1)

\* os.path.basename: what follows the last "/"
Basename(path) ==
  LET slashes == Positions(path, "/") IN
  IF slashes = {} THEN path
  ELSE LET p == CHOOSE i \in slashes : \A j \in slashes : j <= i
       IN  SubSeq(path, p + 1, Len(path))

\* os.path.join(root, file) for a relative file name
PathJoin(root, file) ==
  IF root = << >> THEN file
  ELSE IF root[Len(root)] = "/" THEN root \o file
  ELSE root \o <<"/">> \o file

(***************************************************************************)
(* get_table_name (lines 52-58).  The result is the table name, or the     *)
(* error the indexing raises.                                              *)
(***************************************************************************)
\* a returned value, and a raised exception
Ok(v) == [ok |-> TRUE, val |-> v]
Raised(kind) == [ok |-> FALSE, error |-> kind]

\* mutant of get_table_name: a resolver that joins every dash-separated token
get_table_name_all_tokens(filename) ==
  LET parts == Split(Split(Basename(filename), ".")[1], "-")
      Join[i \in 1..Len(parts)] ==
        IF i = 1 THEN parts[1] ELSE Join[i - 1] \o <<"_">> \o parts[i]
  IN  IF Len(parts) < 3 THEN Raised("IndexError") ELSE Ok(Join[Len(parts)])

get_table_name(filename) ==
  LET parts == Split(Split(Basename(filename), ".")[1], "-")
  IN  IF Len(parts) < 2 THEN Raised("IndexError")        \* parts[1]
      ELSE IF Len(parts) < 3 THEN Raised("IndexError")   \* parts[2]
      ELSE Ok(parts[1] \o <<"_">> \o parts[2] \o <<"_">> \o parts[3])

(***************************************************************************)
(* The admission test of the directory walk (line 149).                    *)
(***************************************************************************)
Currencies == { <<"U","S","D">>, <<"E","U","R">>, <<"G","B","P">>, <<"J","P","Y">>, <<"A","U","D">>, <<"C","A","D">>, <<"C","H","F">>, <<"N","Z","D">> }

\* mutant of Admitted: the currency test is dropped
AdmittedAnyZip(file) == EndsWith(file, <<".","z","i","p">>)

Admitted(file) ==
  /\ EndsWith(file, <<".","z","i","p">>)
  /\ \E cur \in Currencies : Contains(file, cur)

(***************************************************************************)
(* parse_timestamp (lines 60-67): datetime.strptime with                   *)
(* '%Y%m%d %H:%M:%S.%f', and on ValueError with '%Y%m%d %H:%M:%S'.         *)
(* strptime turns the format into a regular expression and matches it at   *)
(* the start of the text:                                                  *)
(*   %Y  \d\d\d\d                                                          *)
(*   %m  1[0-2]|0[1-9]|[1-9]                                               *)
(*   %d  3[01]|[12]\d|0[1-9]|[1-9]| [1-9]                                  *)
(*   the blank of the format  \s+                                          *)
(*   %H  2[0-3]|[0-1]\d|\d     %M  [0-5]\d|\d     %S  6[0-1]|[0-5]\d|\d    *)
(*   %f  [0-9]{1,6}                                                        *)
(* with the alternatives tried from the left.  It raises ValueError when   *)
(* the text does not match, when text remains after the match, or when     *)
(* the fields are no date.  The text is ASCII: \d is a digit 0-9, and \s   *)
(* is blank, tab, newline, vertical tab, form feed, return, or one of the  *)
(* separators 0x1c-0x1f.                                                   *)
(***************************************************************************)
\* the ASCII control characters without an escape of their own that \s
\* matches: 0x0b, 0x1c, 0x1d, 0x1e, 0x1f
VerticalTab == ""
FileSeparator == ""
GroupSeparator == ""
RecordSeparator == ""
UnitSeparator == ""

\* the ASCII characters \s matches
Whitespace ==
  {" ", "\t", "\n", "\r", "\f", VerticalTab, FileSeparator, GroupSeparator,
   RecordSeparator, UnitSeparator}

NonZeroDigits == Digits \ {"0"}

\* the character of s at i, or "" when s has none there
At(s, i) == IF i >= 1 /\ i <= Len(s) THEN s[i] ELSE ""

\* the number of consecutive characters of s from position i that are in set
RECURSIVE Run(_, _, _)
Run(s, i, set) ==
  IF i >= 1 /\ i <= Len(s) /\ s[i] \in set THEN 1 + Run(s, i + 1, set) ELSE 0

\* the number written by the digits s[i .. i+n-1]
RECURSIVE Num(_, _, _)
Num(s, i, n) ==
  IF n = 0 THEN 0 ELSE 10 * Num(s, i, n - 1) + DigitVal(s[i + n - 1])

\* the fraction digits as microseconds: %f pads on the right to six digits
RECURSIVE Pow10(_)
Pow10(n) == IF n = 0 THEN 1 ELSE 10 * Pow10(n - 1)

IsLeap(y) == (y % 4 = 0 /\ y % 100 # 0) \/ y % 400 = 0

DaysInMonth(y, m) ==
  IF m = 2 THEN (IF IsLeap(y) THEN 29 ELSE 28)
  ELSE IF m \in {4, 6, 9, 11} THEN 30 ELSE 31

\* the datetime constructor's range checks
ValidDatetime(y, mo, d, h, mi, sec) ==
  /\ y >= 1 /\ y <= 9999
  /\ mo >= 1 /\ mo <= 12
  /\ d >= 1 /\ d <= DaysInMonth(y, mo)
  /\ h <= 23 /\ mi <= 59 /\ sec <= 59

\* a one- or two-digit field of n digits at i, at most max when two digits
\* (the regular expressions 2[0-3]|[0-1]\d|\d and the like)
FieldOK(s, i, n, max) == n = 1 \/ (n = 2 /\ Num(s, i, 2) <= max)

\* %m at position 5, written with len characters
MonthAt(s, len) ==
  IF len = 2
  THEN At(s, 5) \in Digits /\ At(s, 6) \in Digits /\ Num(s, 5, 2) \in 1..12
  ELSE At(s, 5) \in NonZeroDigits

\* %d at position i: two digits, one digit, or a blank and a digit
DayAt(s, i, kind) ==
  CASE kind = "two" ->
         At(s, i) \in Digits /\ At(s, i + 1) \in Digits /\ Num(s, i, 2) \in 1..31
    [] kind = "one" -> At(s, i) \in NonZeroDigits
    [] kind = "blank" -> At(s, i) = " " /\ At(s, i + 1) \in NonZeroDigits

DayLen(kind) == IF kind = "one" THEN 1 ELSE 2

\* the ways %m%d can be written, in the order the expression tries them
DateShapes ==
  << [m |-> 2, d |-> "two"], [m |-> 2, d |-> "one"], [m |-> 2, d |-> "blank"],
     [m |-> 1, d |-> "two"], [m |-> 1, d |-> "one"], [m |-> 1, d |-> "blank"] >>

NoMatch == [ok |-> FALSE]

\* the time fields matched, and the position of the last character matched
TimeMatch(h, mi, sec, us, last) ==
  [ok |-> TRUE, hour |-> h, minute |-> mi, second |-> sec, microsecond |-> us,
   last |-> last]

\* %f at position i: up to six digits, padded on the right to microseconds
FractionAt(s, i, h, mi, sec) ==
  LET fRun == Run(s, i, Digits)
      fLen == IF fRun > 6 THEN 6 ELSE fRun
  IN  IF fRun = 0 THEN NoMatch
      ELSE TimeMatch(h, mi, sec, Num(s, i, fLen) * Pow10(6 - fLen), i + fLen - 1)

\* %S at position i, and \.%f after it when withFraction; %S takes two
\* digits when they form 00-61, else one
SecondAt(s, i, h, mi, withFraction) ==
  LET sRun == Run(s, i, Digits)
      sLen == IF sRun >= 2 /\ Num(s, i, 2) <= 61 THEN 2 ELSE 1
  IN  IF sRun = 0 THEN NoMatch
      ELSE IF ~withFraction THEN TimeMatch(h, mi, Num(s, i, sLen), 0, i + sLen - 1)
      ELSE IF At(s, i + sLen) # "." THEN NoMatch
      ELSE FractionAt(s, i + sLen + 1, h, mi, Num(s, i, sLen))

\* %M: at position i, and what follows it
MinuteAt(s, i, h, withFraction) ==
  LET n == Run(s, i, Digits)
  IN  IF ~(FieldOK(s, i, n, 59) /\ At(s, i + n) = ":") THEN NoMatch
      ELSE SecondAt(s, i + n + 1, h, Num(s, i, n), withFraction)

\* %H: at position i, and what follows it
HourAt(s, i, withFraction) ==
  LET n == Run(s, i, Digits)
  IN  IF ~(FieldOK(s, i, n, 23) /\ At(s, i + n) = ":") THEN NoMatch
      ELSE MinuteAt(s, i + n + 1, Num(s, i, n), withFraction)

\* \s+%H:%M:%S, and \.%f when withFraction, matched from position p
TimeAt(s, p, withFraction) ==
  LET blanks == Run(s, p, Whitespace)
  IN  IF blanks = 0 THEN NoMatch ELSE HourAt(s, p + blanks, withFraction)

\* the text matched with %m%d written in the way shape
ShapeMatch(s, shape, withFraction) ==
  IF /\ Run(s, 1, Digits) >= 4
     /\ MonthAt(s, shape.m)
     /\ DayAt(s, 5 + shape.m, shape.d)
  THEN TimeAt(s, 5 + shape.m + DayLen(shape.d), withFraction)
  ELSE NoMatch

\* the day of the month written in the way kind at position i
DayOf(s, i, kind) ==
  IF kind = "two" THEN Num(s, i, 2)
  ELSE IF kind = "one" THEN Num(s, i, 1)
  ELSE Num(s, i + 1, 1)

\* the datetime of the fields matched: no text may remain after them, and
\* they must be a date
Datetime(y, mo, d, time, len) ==
  IF time.last # len THEN Raised("ValueError")
  ELSE IF ~ValidDatetime(y, mo, d, time.hour, time.minute, time.second)
  THEN Raised("ValueError")
  ELSE Ok([year |-> y, month |-> mo, day |-> d, hour |-> time.hour,
           minute |-> time.minute, second |-> time.second,
           microsecond |-> time.microsecond])

FromShape(s, shape, withFraction) ==
  Datetime(Num(s, 1, 4), Num(s, 5, shape.m), DayOf(s, 5 + shape.m, shape.d),
           ShapeMatch(s, shape, withFraction), Len(s))

strptime(s, withFraction) ==
  LET matching == {k \in 1..Len(DateShapes) :
                     ShapeMatch(s, DateShapes[k], withFraction).ok}
  IN  IF matching = {} THEN Raised("ValueError")
      ELSE FromShape(s, DateShapes[CHOOSE k \in matching :
                                     \A j \in matching : k <= j], withFraction)

parse_timestamp(timestamp_str) ==
  LET first == strptime(timestamp_str, TRUE)
  IN  IF first.ok THEN first ELSE strptime(timestamp_str, FALSE)

(***************************************************************************)
(* format_datetime_with_ms (lines 69-71):                                  *)
(* strftime('%Y-%m-%d %H:%M:%S.%f') without its last three characters.     *)
(* No line of the script calls it.  The C library's %Y writes the year     *)
(* without padding, so a year below 1000 has fewer than four digits.       *)
(***************************************************************************)
\* n written with at least w digits, zero-padded
RECURSIVE Pad(_, _)
Pad(n, w) ==
  IF w <= 1 /\ n < 10 THEN << DigitChar(n) >>
  ELSE Pad(n \div 10, w - 1) \o << DigitChar(n % 10) >>

strftime(dt) ==
  Pad(dt.year, 1) \o <<"-">> \o Pad(dt.month, 2) \o <<"-">> \o Pad(dt.day, 2)
    \o <<" ">> \o Pad(dt.hour, 2) \o <<":">> \o Pad(dt.minute, 2) \o <<":">>
    \o Pad(dt.second, 2) \o <<".">> \o Pad(dt.microsecond, 6)

format_datetime_with_ms(dt) ==
  LET text == strftime(dt) IN SubSeq(text, 1, Len(text) - 3)

(***************************************************************************)
(* The inputs: directory trees, each file with the entries of the archive  *)
(* it holds, each entry with its CSV rows.  A bid or ask cell is numeric   *)
(* text (its value in units of 0.00001) or text that is no number.  Every  *)
(* CSV entry holds at least one row.  A file that is no zip archive has    *)
(* zip = FALSE.                                                            *)
(***************************************************************************)
Price(v) == [num |-> TRUE, v |-> v]
NotANumber == [num |-> FALSE, v |-> 0]

CsvRow(ts, bid, ask) == [pair |-> "PAIR", timestamp |-> ts, bid |-> bid, ask |-> ask]
Entry(name, rows) == [name |-> name, rows |-> rows]
File(root, name, entries) ==
  [root |-> root, name |-> name, entries |-> entries, zip |-> TRUE]
NotAZip(root, name) ==
  [root |-> root, name |-> name, entries |-> << >>, zip |-> FALSE]
\* a directory tree: the files of the directory itself and, one set per
\* subdirectory, the files below it
Tree(top, subs) == [top |-> top, subs |-> subs]

TsA     == <<"2","0","2","4","0","8","0","1"," ","0","0",":","0","0",":","0","0",".","1","1","0">>
TsB     == <<"2","0","2","4","0","8","0","1"," ","0","0",":","0","0",":","0","0",".","5","0","0">>
TsB1    == <<"2","0","2","4","0","8","0","1"," ","0","0",":","0","0",":","0","0",".","5">>
TsC     == <<"2","0","2","4","0","8","0","1"," ","0","0",":","0","0",":","0","1">>
TsD     == <<"2","0","2","4","0","8","0","1"," ","0","0",":","0","0",":","0","2",".","2","5">>
TsE     == <<"2","0","2","4","0","8","0","1"," ","0","0",":","0","0",":","0","3",".","0","0","0","0","0","1">>
TsSub1  == <<"2","0","2","4","0","8","0","1"," ","0","0",":","0","0",":","0","0",".","1","1","0","5">>
TsSub2  == <<"2","0","2","4","0","8","0","1"," ","0","0",":","0","0",":","0","0",".","1","1","0","9">>
TsDash  == <<"2","0","2","4","-","0","8","-","0","1"," ","0","0",":","0","0",":","0","4">>
TsSeven == <<"2","0","2","4","0","8","0","1"," ","0","0",":","0","0",":","0","5",".","1","2","3","4","5","6","7">>
TsTab   == <<"2","0","2","4","0","8","0","1">> \o << "\t" >> \o <<"0","0",":","0","0",":","0","6",".","5">>
TsBlankDay == <<"2","0","2","4","0","8"," ","1"," ","0","0",":","0","0",":","0","7">>
TsVt    == <<"2","0","2","4","0","8","0","1">> \o << VerticalTab >> \o <<"0","0",":","0","0",":","0","8",".","1","1","0">>
TsFs    == <<"2","0","2","4","0","8","0","1">> \o << " ", FileSeparator >> \o <<"0","0",":","0","0",":","0","9">>

Scenarios == <<
  \* 1: the admission filter, entries that are no CSV, two tables
  Tree({ File(<<"d">>, <<"r","e","a","d","m","e",".","z","i","p">>,
              << Entry(<<"t","i","c","k","s",".","c","s","v">>, << CsvRow(TsE, Price(1), Price(2)) >>) >>),
         File(<<"d">>, <<"e","u","r","u","s","d","-","2","0","2","4","-","1","0",".","z","i","p">>,
              << Entry(<<"c",".","c","s","v">>, << CsvRow(TsB, Price(5), Price(6)) >>) >>) },
       { { File(<<"d","/","A","u","g","2","0","2","4">>, <<"E","U","R","U","S","D","-","2","0","2","4","-","0","8",".","z","i","p">>,
                << Entry(<<"E","U","R","U","S","D","-","2","0","2","4","-","0","8",".","c","s","v">>,
                         << CsvRow(TsA, Price(108423), Price(108431)),
                            CsvRow(TsB, Price(108420), Price(108429)),
                            CsvRow(TsC, Price(108421), Price(108430)) >>),
                   Entry(<<"n","o","t","e","s",".","t","x","t">>, << CsvRow(TsD, Price(3), Price(4)) >>) >>),
           File(<<"d","/","A","u","g","2","0","2","4">>, <<"E","U","R","U","S","D","-","2","0","2","4","-","0","8",".","c","s","v">>, << >>) },
         { File(<<"d","/","S","e","p","2","0","2","4">>, <<"G","B","P","J","P","Y","-","2","0","2","4","-","0","9",".","z","i","p">>,
                << Entry(<<"a",".","c","s","v">>, << CsvRow(TsA, Price(190001), Price(190009)) >>),
                   Entry(<<"b",".","c","s","v">>, << CsvRow(TsD, Price(190002), Price(190008)),
                                      CsvRow(TsC, Price(190003), Price(190007)) >>) >>) } }),
  \* 2: colliding timestamps in one batch, across batches, across archives
  \*    whose names resolve to one table
  Tree({ File(<<"d">>, <<"E","U","R","U","S","D","-","2","0","2","4","-","0","8",".","z","i","p">>,
              << Entry(<<"x",".","c","s","v">>,
                       << CsvRow(TsA, Price(108423), Price(108431)),
                          CsvRow(TsA, Price(999999), Price(999999)),
                          CsvRow(TsB, Price(108420), Price(108429)),
                          CsvRow(TsB1, Price(888888), Price(888888)) >>) >>),
         File(<<"d">>, <<"E","U","R","U","S","D","-","2","0","2","4","-","0","8","-","e","x","t","r","a",".","z","i","p">>,
              << Entry(<<"y",".","c","s","v">>,
                       << CsvRow(TsB, Price(777777), Price(777777)),
                          CsvRow(TsC, Price(108421), Price(108430)),
                          CsvRow(TsD, Price(108422), Price(108432)) >>) >>) },
       {}),
  \* 3: an admitted file whose name has fewer than three tokens
  Tree({ File(<<"d">>, <<"A","U","D","U","S","D","-","2","0","2","4","-","0","8",".","z","i","p">>,
              << Entry(<<"x",".","c","s","v">>,
                       << CsvRow(TsA, Price(65001), Price(65009)),
                          CsvRow(TsB, Price(65002), Price(65008)),
                          CsvRow(TsC, Price(65003), Price(65007)) >>) >>),
         File(<<"d">>, <<"U","S","D",".","z","i","p">>,
              << Entry(<<"x",".","c","s","v">>, << CsvRow(TsD, Price(1), Price(2)) >>) >>),
         File(<<"d">>, <<"N","Z","D","U","S","D","-","2","0","2","4","-","0","8",".","z","i","p">>,
              << Entry(<<"x",".","c","s","v">>, << CsvRow(TsA, Price(60001), Price(60009)) >>) >>) },
       {}),
  \* 4: an unparseable timestamp in the second batch of an archive
  Tree({ File(<<"d">>, <<"E","U","R","U","S","D","-","2","0","2","4","-","0","8",".","z","i","p">>,
              << Entry(<<"x",".","c","s","v">>,
                       << CsvRow(TsA, Price(108423), Price(108431)),
                          CsvRow(TsB, Price(108420), Price(108429)),
                          CsvRow(TsC, Price(108421), Price(108430)),
                          CsvRow(TsDash, Price(108422), Price(108432)),
                          CsvRow(TsD, Price(108424), Price(108433)),
                          CsvRow(TsE, Price(108425), Price(108434)),
                          CsvRow(TsSub1, Price(108426), Price(108435)) >>) >>),
         File(<<"d">>, <<"G","B","P","U","S","D","-","2","0","2","4","-","0","8",".","z","i","p">>,
              << Entry(<<"x",".","c","s","v">>, << CsvRow(TsA, Price(127001), Price(127009)) >>) >>) },
       {}),
  \* 5: a bid that is no number in the second batch of an archive
  Tree({ File(<<"d">>, <<"E","U","R","U","S","D","-","2","0","2","4","-","0","8",".","z","i","p">>,
              << Entry(<<"x",".","c","s","v">>,
                       << CsvRow(TsA, Price(108423), Price(108431)),
                          CsvRow(TsB, Price(108420), Price(108429)),
                          CsvRow(TsC, Price(108421), Price(108430)),
                          CsvRow(TsD, NotANumber, Price(108432)),
                          CsvRow(TsE, Price(108424), Price(108433)) >>) >>),
         File(<<"d">>, <<"C","A","D","J","P","Y","-","2","0","2","4","-","0","8",".","z","i","p">>,
              << Entry(<<"x",".","c","s","v">>, << CsvRow(TsA, Price(110001), Price(110009)) >>) >>) },
       {}),
  \* 6: timestamps that differ only below the millisecond, a fraction of
  \*    seven digits, a day written " 1", and a tab, a vertical tab and a
  \*    file separator before the time
  Tree({ File(<<"d">>, <<"E","U","R","U","S","D","-","2","0","2","4","-","0","8",".","z","i","p">>,
              << Entry(<<"x",".","c","s","v">>,
                       << CsvRow(TsSub1, Price(108423), Price(108431)),
                          CsvRow(TsSub2, Price(108420), Price(108429)),
                          CsvRow(TsA, Price(108421), Price(108430)),
                          CsvRow(TsTab, Price(108422), Price(108432)),
                          CsvRow(TsBlankDay, Price(108424), Price(108433)),
                          CsvRow(TsVt, Price(108425), Price(108434)),
                          CsvRow(TsFs, Price(108426), Price(108435)) >>) >>),
         File(<<"d">>, <<"C","H","F","J","P","Y","-","2","0","2","4","-","0","8",".","z","i","p">>,
              << Entry(<<"x",".","c","s","v">>, << CsvRow(TsSeven, Price(170001), Price(170009)) >>) >>) },
       {}),
  \* 7: a file that is admitted and is no zip archive
  Tree({ NotAZip(<<"d">>, <<"G","B","P","U","S","D","-","2","0","2","4","-","0","8",".","z","i","p">>) }, {}),
  \* 8: a directory without files, or a plain file given as --data_dir
  Tree({}, {})
>>

(***************************************************************************)
(* os.walk (lines 147-148): top-down, so the files of a directory come     *)
(* before those of its subdirectories; within a directory the files, and   *)
(* the subdirectories, come in the order the file system lists them,       *)
(* which the script does not sort.                                         *)
(***************************************************************************)
\* the orders in which a directory's files can be listed
RECURSIVE Listings(_)
Listings(files) ==
  IF files = {} THEN { << >> }
  ELSE UNION { { << f >> \o rest : rest \in Listings(files \ {f}) } : f \in files }

\* the orders in which the files of subdirectories can be walked
RECURSIVE WalkDirs(_)
WalkDirs(dirs) ==
  IF dirs = {} THEN { << >> }
  ELSE UNION { { here \o rest : here \in Listings(d),
                                rest \in WalkDirs(dirs \ {d}) } : d \in dirs }

WalkOrders(tree) ==
  { top \o below : top \in Listings(tree.top), below \in WalkDirs(tree.subs) }

(***************************************************************************)
(* The store: a table name maps to the set of its rows.                    *)
(***************************************************************************)
StoreRow(ts, bid, ask) == [timestamp |-> ts, bid |-> bid, ask |-> ask]
NoTables == [t \in {} |-> {}]
Stamp(us) == [year |-> 2024, month |-> 8, day |-> 1, hour |-> 0, minute |-> 0,
              second |-> 0, microsecond |-> us]

\* what the store may hold before the first run
InitialStores ==
  { NoTables,
    [t \in { <<"E","U","R","U","S","D","_","2","0","2","4","_","0","8">> } |->
       { StoreRow(Stamp(110000), 100000, 100001),
         StoreRow(Stamp(750000), 100002, 100003) }] }

Timestamps(rows) == {r.timestamp : r \in rows}

(***************************************************************************)
(* State.                                                                  *)
(***************************************************************************)
VARIABLES
  argv,              \* the command line: "run" when it parses, else
                     \* "help" (-h) or "unknown" (an argument not known)
  scenario,          \* which directory tree --data_dir names
  walk,              \* the files in the order os.walk yields them
  dirExists,         \* os.path.exists(data_dir)
  strictStore,       \* whether the store refuses text that is no number
  initial,           \* the store before the first run
  committed,         \* the rows the store holds durably
  session,           \* the rows as the open connection sees them
  connOpen,          \* a connection is open
  connections,       \* connections opened in this run
  pc,                \* where the script is; "off" when it is not run
  fileIdx,           \* position of the walk in the directory's files
  entryIdx,          \* position in the archive's entries
  consumed,          \* rows of the entry the chunk reader has handed out
  table_name,        \* process_zip_file's table_name
  processed_tables,  \* process_data_directory's processed_tables
  calls,             \* the files handed to process_zip_file in this run
  log,               \* the statements issued on the connection in this run
  err,               \* the exception that ended the run, or "none"
  exitStatus,        \* the process's exit status, -1 while it runs
  summary,           \* the table names the summary printed
  archiveStart,      \* the durable rows when the current archive began
  run,               \* how many times the script was started
  prevOutcome,       \* the run before: "none", "returned" when
                     \* process_data_directory returned, else "ended"
  faults,            \* store faults so far
  fnOp, fnArg, fnRes \* a function applied on its own: name, argument, result

vars == << argv, scenario, walk, dirExists, strictStore, initial, committed, session,
           connOpen, connections, pc, fileIdx, entryIdx, consumed, table_name,
           processed_tables, calls, log, err, exitStatus, summary,
           archiveStart, run, prevOutcome, faults, fnOp, fnArg, fnRes >>

inputVars == << argv, scenario, walk, dirExists, strictStore, initial >>
fnVars == << fnOp, fnArg, fnRes >>

Files == walk

Min(a, b) == IF a <= b THEN a ELSE b

(***************************************************************************)
(* The statements the script issues.                                       *)
(***************************************************************************)
Stmt(op, table, file, entry, first, ok) ==
  [op |-> op, table |-> table, file |-> file, entry |-> entry,
   first |-> first, ok |-> ok]

\* CREATE TABLE IF NOT EXISTS (lines 80-90): an existing table keeps its rows
CreateTableIfNotExists(store, t) ==
  [u \in DOMAIN store \cup {t} |-> IF u \in DOMAIN store THEN store[u] ELSE {}]

\* mutant of InsertIgnore: REPLACE INTO, the incoming row overwrites
RECURSIVE InsertReplace(_, _)
InsertReplace(rows, values) ==
  IF values = << >> THEN Ok(rows)
  ELSE LET v == Head(values)
           kept == {r \in rows : r.timestamp # v.timestamp}
       IN  InsertReplace(kept \cup {v}, Tail(values))

\* mutant of InsertIgnore: a plain INSERT, which fails on a duplicate key
RECURSIVE InsertPlain(_, _)
InsertPlain(rows, values) ==
  IF values = << >> THEN Ok(rows)
  ELSE LET v == Head(values)
       IN  IF v.timestamp \in Timestamps(rows) THEN Raised("IntegrityError")
           ELSE InsertPlain(rows \cup {v}, Tail(values))

\* INSERT IGNORE INTO t (timestamp, bid, ask) VALUES ... (lines 120-123)
\* against PRIMARY KEY (timestamp) (line 85): the rows of values are taken
\* in order, and one whose timestamp the table holds is dropped
RECURSIVE InsertIgnore(_, _)
InsertIgnore(rows, values) ==
  IF values = << >> THEN Ok(rows)
  ELSE LET v == Head(values)
       IN  IF v.timestamp \in Timestamps(rows)
           THEN InsertIgnore(rows, Tail(values))
           ELSE InsertIgnore(rows \cup {v}, Tail(values))

\* the value the store keeps for a bid or ask cell: under IGNORE text that is
\* no number is stored as 0 with a warning
Stored(cell) == IF cell.num THEN cell.v ELSE 0

(***************************************************************************)
(* Reading an archive (lines 93-117).                                      *)
(***************************************************************************)
IsCsvEntry(name) == EndsWith(name, <<".","c","s","v">>)

\* mutant of HasChunk: a last chunk shorter than ChunkSize is not read
HasFullChunk(rows, done) == done + ChunkSize <= Len(rows)

\* the chunk reader of line 101 has another chunk after done rows
HasChunk(rows, done) == done < Len(rows)

\* the next chunk: at most ChunkSize rows after the first done
Chunk(rows, done) == SubSeq(rows, done + 1, Min(done + ChunkSize, Len(rows)))

\* lines 94-95, 101: the entry the next chunk comes from: the current one
\* while its reader has chunks, else the next entry named *.csv that has
\* one; 0 when the archive has no more
NextEntry(entries, e, done) ==
  IF /\ e >= 1 /\ e <= Len(entries)
     /\ IsCsvEntry(entries[e].name)
     /\ HasChunk(entries[e].rows, done)
  THEN e
  ELSE LET later == {i \in (e + 1)..Len(entries) :
                       /\ IsCsvEntry(entries[i].name)
                       /\ HasChunk(entries[i].rows, 0)}
       IN  IF later = {} THEN 0
           ELSE CHOOSE i \in later : \A j \in later : i <= j

\* lines 111-117: the chunk's timestamps parsed, the pair column dropped
ParsedOK(chunk) == \A i \in 1..Len(chunk) : parse_timestamp(chunk[i].timestamp).ok

Values(chunk) ==
  [i \in 1..Len(chunk) |->
     StoreRow(parse_timestamp(chunk[i].timestamp).val,
              Stored(chunk[i].bid), Stored(chunk[i].ask))]

AllNumeric(chunk) == \A i \in 1..Len(chunk) : chunk[i].bid.num /\ chunk[i].ask.num

(***************************************************************************)
(* Init: the state as main starts.                                         *)
(***************************************************************************)
FnIdle == fnOp = "none" /\ fnArg = [kind |-> "none"] /\ fnRes = << >>

Started ==
  /\ session = NoTables
  /\ connOpen = FALSE
  /\ connections = 0
  /\ pc = "main"
  /\ fileIdx = 0 /\ entryIdx = 0 /\ consumed = 0
  /\ table_name = << >>
  /\ processed_tables = << >>
  /\ calls = << >>
  /\ log = << >>
  /\ err = "none"
  /\ exitStatus = -1
  /\ summary = << >>
  /\ archiveStart = NoTables

\* the script is run over one of the directories
InitRun ==
  /\ argv \in {"run", "help", "unknown"}
  /\ scenario \in 1..Len(Scenarios)
  /\ walk \in WalkOrders(Scenarios[scenario])
  /\ dirExists \in BOOLEAN
  /\ strictStore \in BOOLEAN
  /\ initial \in InitialStores
  /\ committed = initial
  /\ run = 1
  /\ prevOutcome = "none"
  /\ faults = 0
  /\ Started
  /\ FnIdle

(***************************************************************************)
(* An uncaught exception: the traceback is printed, the process exits      *)
(* with status 1, and the store rolls back what the lost connection had    *)
(* not committed.  Nothing in the script catches it.                       *)
(***************************************************************************)
\* mutant of Fail: the walk catches the error and goes on with the next file
FailAndContinue(kind) ==
  /\ pc' = "walk"
  /\ fileIdx' = fileIdx + 1
  /\ session' = committed
  /\ err' = kind
  /\ UNCHANGED << connOpen, exitStatus, summary >>

Fail(kind) ==
  /\ pc' = "exited"
  /\ err' = kind
  /\ exitStatus' = 1
  /\ connOpen' = FALSE
  /\ session' = NoTables
  /\ UNCHANGED << fileIdx, summary >>

\* a store fault may hit a statement while the budget lasts
MayFault == faults < MaxFaults

(***************************************************************************)
(* main (lines 160-182).                                                   *)
(***************************************************************************)
\* line 161: parse_arguments returns
ArgsParsed == argv = "run"

\* lines 36-44, 161: argparse ends the process itself: -h prints the usage
\* and exits with status 0, an argument it does not know exits with 2
parse_arguments ==
  /\ pc = "main"
  /\ ~ArgsParsed
  /\ pc' = "exited"
  /\ exitStatus' = IF argv = "help" THEN 0 ELSE 2
  /\ err' = "SystemExit"
  /\ UNCHANGED << inputVars, committed, session, connOpen, connections, fileIdx,
                  entryIdx, consumed, table_name, processed_tables, calls, log,
                  summary, archiveStart, run, prevOutcome, faults, fnVars >>

\* mutant of DirectoryMissing: the check of the directory is left out
DirectoryNeverMissing == FALSE

\* line 173
DirectoryMissing == ~dirExists

\* lines 173-175: sys.exit(1) before anything touches the store
MainExitNoDirectory ==
  /\ pc = "main"
  /\ ArgsParsed
  /\ DirectoryMissing
  /\ pc' = "exited"
  /\ exitStatus' = 1
  /\ err' = "SystemExit"
  /\ UNCHANGED << inputVars, committed, session, connOpen, connections, fileIdx,
                  entryIdx, consumed, table_name, processed_tables, calls, log,
                  summary, archiveStart, run, prevOutcome, faults, fnVars >>

\* lines 177-178, 133-139: mysql.connector.connect and conn.cursor()
Connect ==
  /\ pc = "main"
  /\ ArgsParsed
  /\ ~DirectoryMissing
  /\ connections' = connections + 1
  /\ \/ /\ connOpen' = TRUE
        /\ session' = committed
        /\ pc' = "database"
        /\ UNCHANGED << err, exitStatus, faults >>
     \/ /\ MayFault
        /\ faults' = faults + 1
        /\ pc' = "exited"
        /\ err' = "StoreFault"
        /\ exitStatus' = 1
        /\ UNCHANGED << connOpen, session >>
  /\ UNCHANGED << inputVars, committed, fileIdx, entryIdx, consumed, table_name,
                  processed_tables, calls, log, summary, archiveStart, run,
                  prevOutcome, fnVars >>

\* lines 141, 46-50: CREATE DATABASE IF NOT EXISTS, then USE; either may
\* fail, and then the statement that failed is the last one issued
create_database_if_not_exists ==
  /\ pc = "database"
  /\ \/ /\ log' = << Stmt("CREATE DATABASE", << >>, 0, 0, 0, TRUE),
                     Stmt("USE", << >>, 0, 0, 0, TRUE) >>
        /\ pc' = "walk"
        /\ fileIdx' = 1
        /\ UNCHANGED << session, connOpen, err, exitStatus, summary, faults >>
     \/ /\ MayFault
        /\ faults' = faults + 1
        /\ log' = << Stmt("CREATE DATABASE", << >>, 0, 0, 0, FALSE) >>
        /\ Fail("StoreFault")
     \/ /\ MayFault
        /\ faults' = faults + 1
        /\ log' = << Stmt("CREATE DATABASE", << >>, 0, 0, 0, TRUE),
                     Stmt("USE", << >>, 0, 0, 0, FALSE) >>
        /\ Fail("StoreFault")
  /\ UNCHANGED << inputVars, committed, connections, entryIdx, consumed,
                  table_name, processed_tables, calls, archiveStart, run,
                  prevOutcome, fnVars >>

(***************************************************************************)
(* process_data_directory's walk (lines 147-152) and process_zip_file      *)
(* (lines 73-128).                                                         *)
(***************************************************************************)
\* line 149 false: the file is passed over
WalkSkip ==
  /\ pc = "walk"
  /\ fileIdx <= Len(Files)
  /\ ~Admitted(Files[fileIdx].name)
  /\ fileIdx' = fileIdx + 1
  /\ UNCHANGED << inputVars, committed, session, connOpen, connections, pc,
                  entryIdx, consumed, table_name, processed_tables, calls, log,
                  err, exitStatus, summary, archiveStart, run, prevOutcome,
                  faults, fnVars >>

\* lines 149-151, 75-93: the table name, then CREATE TABLE IF NOT EXISTS,
\* which the store commits on its own, then the file is opened as a zip
\* archive
BeginArchive ==
  /\ pc = "walk"
  /\ fileIdx <= Len(Files)
  /\ Admitted(Files[fileIdx].name)
  /\ calls' = Append(calls, fileIdx)
  /\ LET f == Files[fileIdx]
         tn == get_table_name(PathJoin(f.root, f.name))
     IN  IF ~tn.ok
         THEN /\ Fail(tn.error)
              /\ UNCHANGED << committed, log, table_name, entryIdx, consumed,
                              archiveStart, faults >>
         ELSE \/ /\ f.zip
                 /\ session' = CreateTableIfNotExists(session, tn.val)
                 /\ committed' = session'
                 /\ archiveStart' = session'
                 /\ log' = Append(log, Stmt("CREATE TABLE", tn.val, fileIdx, 0, 0, TRUE))
                 /\ table_name' = tn.val
                 /\ pc' = "chunk"
                 /\ entryIdx' = 0
                 /\ consumed' = 0
                 /\ UNCHANGED << fileIdx, connOpen, err, exitStatus, summary,
                                 faults >>
              \/ /\ ~f.zip
                 /\ committed' = CreateTableIfNotExists(session, tn.val)
                 /\ archiveStart' = committed'
                 /\ log' = Append(log, Stmt("CREATE TABLE", tn.val, fileIdx, 0, 0, TRUE))
                 /\ table_name' = tn.val
                 /\ Fail("BadZipFile")
                 /\ UNCHANGED << entryIdx, consumed, faults >>
              \/ /\ MayFault
                 /\ faults' = faults + 1
                 /\ log' = Append(log, Stmt("CREATE TABLE", tn.val, fileIdx, 0, 0, FALSE))
                 /\ table_name' = tn.val
                 /\ Fail("StoreFault")
                 /\ UNCHANGED << committed, entryIdx, consumed, archiveStart >>
  /\ UNCHANGED << inputVars, connections, processed_tables, run, prevOutcome,
                  fnVars >>

\* mutant of Durable: conn.commit() is left out, nothing becomes durable
DurableNothing(sess, comm) == comm

\* what the store holds durably after conn.commit()
Durable(sess, comm) == sess

\* mutant of AfterInsert: the next chunk is read without a commit in between
AfterInsertNoCommit == "chunk"

\* line 124 follows line 120: where the script is after executemany
AfterInsert == "commit"

\* lines 101-123: the next chunk is read, its timestamps are parsed, and
\* the batch goes to the store in one executemany
ReadChunk ==
  /\ pc = "chunk"
  /\ LET entries == Files[fileIdx].entries
         e == NextEntry(entries, entryIdx, consumed)
         done == IF e = entryIdx THEN consumed ELSE 0
     IN  /\ e # 0
         /\ LET chunk == Chunk(entries[e].rows, done)
                insert(ok) == Stmt("INSERT", table_name, fileIdx, e, done + 1, ok)
            IN  /\ entryIdx' = e
                /\ consumed' = done + Len(chunk)
                /\ IF ~ParsedOK(chunk)
                   THEN /\ Fail("ValueError")
                        /\ UNCHANGED << log, faults >>
                   ELSE \/ /\ ~(strictStore /\ ~AllNumeric(chunk))
                           /\ LET res == InsertIgnore(session[table_name], Values(chunk))
                              IN  IF res.ok
                                  THEN /\ session' = [session EXCEPT ![table_name] = res.val]
                                       /\ log' = Append(log, insert(TRUE))
                                       /\ pc' = AfterInsert
                                       /\ UNCHANGED << fileIdx, connOpen, err,
                                                       exitStatus, summary >>
                                  ELSE /\ log' = Append(log, insert(FALSE))
                                       /\ Fail(res.error)
                           /\ UNCHANGED faults
                        \/ /\ strictStore /\ ~AllNumeric(chunk)
                           /\ log' = Append(log, insert(FALSE))
                           /\ Fail("DataError")
                           /\ UNCHANGED faults
                        \/ /\ MayFault
                           /\ faults' = faults + 1
                           /\ log' = Append(log, insert(FALSE))
                           /\ Fail("StoreFault")
  /\ UNCHANGED << inputVars, committed, connections, table_name,
                  processed_tables, calls, archiveStart, run, prevOutcome,
                  fnVars >>

\* line 124: conn.commit()
Commit ==
  /\ pc = AfterInsert
  /\ pc # "chunk"
  /\ \/ /\ committed' = Durable(session, committed)
        /\ log' = Append(log, Stmt("COMMIT", table_name, fileIdx, entryIdx, 0, TRUE))
        /\ pc' = "chunk"
        /\ UNCHANGED << session, connOpen, fileIdx, err, exitStatus, summary,
                        faults >>
     \/ /\ MayFault
        /\ faults' = faults + 1
        /\ log' = Append(log, Stmt("COMMIT", table_name, fileIdx, entryIdx, 0, FALSE))
        /\ Fail("StoreFault")
        /\ UNCHANGED committed
  /\ UNCHANGED << inputVars, connections, entryIdx, consumed, table_name,
                  processed_tables, calls, archiveStart, run, prevOutcome,
                  fnVars >>

\* lines 127-128, 152: the archive has no more chunks; its table name is
\* returned and appended
FinishArchive ==
  /\ pc = "chunk"
  /\ NextEntry(Files[fileIdx].entries, entryIdx, consumed) = 0
  /\ processed_tables' = Append(processed_tables, table_name)
  /\ fileIdx' = fileIdx + 1
  /\ pc' = "walk"
  /\ UNCHANGED << inputVars, committed, session, connOpen, connections,
                  entryIdx, consumed, table_name, calls, log, err, exitStatus,
                  summary, archiveStart, run, prevOutcome, faults, fnVars >>

\* lines 155-158, 180-182: the walk is over; cursor and connection are
\* closed, the summary is printed, and main returns; either close may fail
Finish ==
  /\ pc = "walk"
  /\ fileIdx > Len(Files)
  /\ \/ /\ log' = log \o << Stmt("CLOSE CURSOR", << >>, 0, 0, 0, TRUE),
                            Stmt("CLOSE CONNECTION", << >>, 0, 0, 0, TRUE) >>
        /\ connOpen' = FALSE
        /\ session' = NoTables
        /\ summary' = processed_tables
        /\ exitStatus' = 0
        /\ pc' = "exited"
        /\ UNCHANGED << fileIdx, err, faults >>
     \/ /\ MayFault
        /\ faults' = faults + 1
        /\ log' = Append(log, Stmt("CLOSE CURSOR", << >>, 0, 0, 0, FALSE))
        /\ Fail("StoreFault")
     \/ /\ MayFault
        /\ faults' = faults + 1
        /\ log' = log \o << Stmt("CLOSE CURSOR", << >>, 0, 0, 0, TRUE),
                            Stmt("CLOSE CONNECTION", << >>, 0, 0, 0, FALSE) >>
        /\ Fail("StoreFault")
  /\ UNCHANGED << inputVars, committed, connections, entryIdx, consumed,
                  table_name, processed_tables, calls, archiveStart, run,
                  prevOutcome, fnVars >>

\* the script is started again with the same command line over the same
\* store and the same directory, which is unchanged and so is listed in the
\* same order
Rerun ==
  /\ pc = "exited"
  /\ run < MaxRuns
  /\ run' = run + 1
  /\ prevOutcome' = IF exitStatus = 0 /\ err = "none" THEN "returned" ELSE "ended"
  /\ session' = NoTables
  /\ connOpen' = FALSE
  /\ connections' = 0
  /\ pc' = "main"
  /\ fileIdx' = 0 /\ entryIdx' = 0 /\ consumed' = 0
  /\ table_name' = << >>
  /\ processed_tables' = << >>
  /\ calls' = << >>
  /\ log' = << >>
  /\ err' = "none"
  /\ exitStatus' = -1
  /\ summary' = << >>
  /\ archiveStart' = NoTables
  /\ UNCHANGED << inputVars, committed, faults, fnVars >>


(***************************************************************************)
(* The functions applied on their own, to file names and timestamps built  *)
(* from their parts.                                                       *)
(***************************************************************************)
RECURSIVE JoinWith(_, _)
JoinWith(tokens, sep) ==
  IF Len(tokens) = 0 THEN << >>
  ELSE IF Len(tokens) = 1 THEN tokens[1]
  ELSE tokens[1] \o sep \o JoinWith(Tail(tokens), sep)

NameRoots == { << >>, <<"d","a","t","a","-","2","0","2","4","/","A","u","g",".","2","0","2","4">> }
NamePairs == { <<"E","U","R","U","S","D">>, <<"G","B","P","J","P","Y">>, <<"r","e","a","d","m","e">>, <<"e","u","r","u","s","d">> }
NameYears == { <<"2","0","2","4">>, <<"2","4">> }
NameMonths == { <<"0","8">>, <<"8">> }
NameExtras == { <<"p","a","r","t","2">> }
NameExts == { <<".","z","i","p">>, <<".","Z","I","P">>, <<".","t","a","r",".","z","i","p">> }

NameTokens ==
  { <<p>> : p \in NamePairs }
    \cup { <<p, y>> : p \in NamePairs, y \in NameYears }
    \cup { <<p, y, m>> : p \in NamePairs, y \in NameYears, m \in NameMonths }
    \cup { <<p, y, m, x>> : p \in NamePairs, y \in NameYears, m \in NameMonths,
                            x \in NameExtras }

FileArgs ==
  { [kind |-> "file", root |-> r, tokens |-> t, ext |-> x,
     name |-> JoinWith(t, <<"-">>) \o x] :
      r \in NameRoots, t \in NameTokens, x \in NameExts }

TsDates == { <<"2","0","2","4","0","8","0","1">>, <<"2","0","2","4","0","2","2","9">>, <<"2","0","2","3","0","2","2","9">>, <<"2","0","2","4","0","8","1">>, <<"2","0","2","4","1","3","0","1">>,
             <<"2","0","2","4","0","8"," ","1">>, <<"0","0","2","4","0","8","0","1">> }
TsSeparators ==
  { <<" ">>, << "\t" >>, <<" "," ">>, << VerticalTab >>, << FileSeparator >>,
    << GroupSeparator >>, << RecordSeparator >>, << " ", UnitSeparator >> }
TsTimes == { <<"0","0",":","0","0",":","0","0">>, <<"2","3",":","5","9",":","5","9">>, <<"1",":","2",":","3">>, <<"2","4",":","0","0",":","0","0">> }
TsFractions == { << >>, <<".">>, <<".","1">>, <<".","1","1","0">>, <<".","1","1","0","5">>, <<".","1","1","0","9","9","9">>,
                 <<".","1","2","3","4","5","6","7">> }

TsArgs ==
  { [kind |-> "timestamp", date |-> d, time |-> t, fraction |-> f,
     text |-> d \o w \o t \o f] :
      d \in TsDates, w \in TsSeparators, t \in TsTimes, f \in TsFractions }

\* no run of the script: a function is applied to an argument
InitFn ==
  /\ fnOp = "none"
  /\ fnArg \in FileArgs \cup TsArgs
  /\ fnRes = << >>
  /\ argv = "run"
  /\ scenario = 1
  /\ walk = << >>
  /\ dirExists = TRUE
  /\ strictStore = FALSE
  /\ initial = NoTables
  /\ committed = NoTables
  /\ run = 1
  /\ prevOutcome = "none"
  /\ faults = 0
  /\ session = NoTables
  /\ connOpen = FALSE
  /\ connections = 0
  /\ pc = "off"
  /\ fileIdx = 0 /\ entryIdx = 0 /\ consumed = 0
  /\ table_name = << >>
  /\ processed_tables = << >>
  /\ calls = << >>
  /\ log = << >>
  /\ err = "none"
  /\ exitStatus = -1
  /\ summary = << >>
  /\ archiveStart = NoTables

runVars == << inputVars, committed, session, connOpen, connections, pc, fileIdx,
              entryIdx, consumed, table_name, processed_tables, calls, log,
              err, exitStatus, summary, archiveStart, run, prevOutcome, faults >>

ApplyGetTableName ==
  /\ pc = "off" /\ fnOp = "none" /\ fnArg.kind = "file"
  /\ fnOp' = "get_table_name"
  /\ fnRes' = get_table_name(PathJoin(fnArg.root, fnArg.name))
  /\ UNCHANGED << fnArg, runVars >>

ApplyAdmitted ==
  /\ pc = "off" /\ fnOp = "none" /\ fnArg.kind = "file"
  /\ fnOp' = "Admitted"
  /\ fnRes' = Ok(Admitted(fnArg.name))
  /\ UNCHANGED << fnArg, runVars >>

ApplyParseTimestamp ==
  /\ pc = "off" /\ fnOp = "none" /\ fnArg.kind = "timestamp"
  /\ fnOp' = "parse_timestamp"
  /\ fnRes' = parse_timestamp(fnArg.text)
  /\ UNCHANGED << fnArg, runVars >>

ApplyFormat ==
  /\ pc = "off" /\ fnOp = "parse_timestamp" /\ fnRes.ok
  /\ fnOp' = "format_datetime_with_ms"
  /\ fnArg' = [kind |-> "datetime", dt |-> fnRes.val, text |-> fnArg.text,
               fraction |-> fnArg.fraction]
  /\ fnRes' = Ok(format_datetime_with_ms(fnRes.val))
  /\ UNCHANGED runVars

Init == InitRun \/ InitFn

Next ==
  \/ parse_arguments
  \/ MainExitNoDirectory
  \/ Connect
  \/ create_database_if_not_exists
  \/ WalkSkip
  \/ BeginArchive
  \/ ReadChunk
  \/ Commit
  \/ FinishArchive
  \/ Finish
  \/ Rerun
  \/ ApplyGetTableName
  \/ ApplyAdmitted
  \/ ApplyParseTimestamp
  \/ ApplyFormat

Spec == Init /\ [][Next]_vars

(***************************************************************************)
(* Definitions the properties share.                                       *)
(***************************************************************************)
Running == pc \notin {"off", "exited"}
\* process_data_directory returned and main printed the summary
Succeeded == pc = "exited" /\ exitStatus = 0 /\ err = "none"

\* the admission rule as it is documented: the name ends in ".zip" and
\* holds one of the eight currency codes
DocumentedCodes ==
  { <<"U","S","D">>, <<"E","U","R">>, <<"G","B","P">>, <<"J","P","Y">>, <<"A","U","D">>, <<"C","A","D">>, <<"C","H","F">>, <<"N","Z","D">> }

DocumentedAdmission(name) ==
  /\ Len(name) >= 4
  /\ SubSeq(name, Len(name) - 3, Len(name)) = <<".","z","i","p">>
  /\ \E c \in DocumentedCodes :
       \E i \in 1..Len(name) :
         i + 2 <= Len(name) /\ << name[i], name[i + 1], name[i + 2] >> = c

DocumentedFiles == {i \in 1..Len(Files) : DocumentedAdmission(Files[i].name)}

TableOf(i) == get_table_name(PathJoin(Files[i].root, Files[i].name))

\* the dash-separated tokens of a file name before its first dot
NameTokenCount(name) == Len(Split(Split(name, ".")[1], "-"))

DocumentedCsv(name) ==
  Len(name) >= 4 /\ SubSeq(name, Len(name) - 3, Len(name)) = <<".","c","s","v">>

\* the rows of the documented CSV entries of entries[1..n], in order
RECURSIVE CsvRowsUpTo(_, _)
CsvRowsUpTo(entries, n) ==
  IF n = 0 THEN << >>
  ELSE CsvRowsUpTo(entries, n - 1)
         \o (IF DocumentedCsv(entries[n].name) THEN entries[n].rows ELSE << >>)

CsvRows(i) == CsvRowsUpTo(Files[i].entries, Len(Files[i].entries))

\* the CSV rows of the admitted files 1..n that resolve to table t, in walk order
RECURSIVE RowsIntoUpTo(_, _)
RowsIntoUpTo(t, n) ==
  IF n = 0 THEN << >>
  ELSE RowsIntoUpTo(t, n - 1)
         \o (IF n \in DocumentedFiles /\ TableOf(n) = Ok(t) THEN CsvRows(n) ELSE << >>)

\* rows0 and, of the rows of seq in order, each first one with a timestamp
\* that neither rows0 nor an earlier row of seq has
FirstWins(rows0, seq) ==
  rows0 \cup
    { seq[k] : k \in { k \in 1..Len(seq) :
                         /\ seq[k].timestamp \notin Timestamps(rows0)
                         /\ \A j \in 1..(k - 1) : seq[j].timestamp # seq[k].timestamp } }

\* what one complete run over the directory leaves in the store that
\* held `initial`
SingleRunResult ==
  LET named == {TableOf(i).val : i \in DocumentedFiles} IN
  [t \in DOMAIN initial \cup named |->
     FirstWins(IF t \in DOMAIN initial THEN initial[t] ELSE {},
               Values(RowsIntoUpTo(t, Len(Files))))]

Unique(store) ==
  \A t \in DOMAIN store : \A r1, r2 \in store[t] :
    r1.timestamp = r2.timestamp => r1 = r2

EurUsd == <<"E","U","R","U","S","D","_","2","0","2","4","_","0","8">>

(***************************************************************************)
(* C1                                                                      *)
(***************************************************************************)
\* C1: when process_data_directory has returned without error, for every
\* admitted archive the table get_table_name names exists and holds, for
\* every row of every entry named *.csv, exactly one row with that row's
\* parsed timestamp; and the tables hold no row that comes from elsewhere
\* (an entry of another name contributes none).
C1_AllRowsPresent ==
  Succeeded =>
    /\ \A i \in DocumentedFiles :
         /\ TableOf(i).ok
         /\ TableOf(i).val \in DOMAIN committed
         /\ \A k \in 1..Len(CsvRows(i)) :
              LET ts == parse_timestamp(CsvRows(i)[k].timestamp) IN
              /\ ts.ok
              /\ Cardinality({r \in committed[TableOf(i).val] :
                                r.timestamp = ts.val}) = 1
    /\ \A t \in DOMAIN committed : \A r \in committed[t] :
         \/ t \in DOMAIN initial /\ r \in initial[t]
         \/ \E i \in DocumentedFiles :
              /\ TableOf(i) = Ok(t)
              /\ \E k \in 1..Len(CsvRows(i)) :
                   parse_timestamp(CsvRows(i)[k].timestamp) = Ok(r.timestamp)

\* a first run over directory 1 has ended well with the three EURUSD rows
C1_Witness ==
  /\ Succeeded /\ scenario = 1 /\ run = 1 /\ initial = NoTables
  /\ Cardinality(committed[EurUsd]) = 3
  /\ Cardinality(committed[<<"G","B","P","J","P","Y","_","2","0","2","4","_","0","9">>]) = 3

(***************************************************************************)
(* C2                                                                      *)
(***************************************************************************)
C2_State ==
  /\ Unique(committed)
  /\ Unique(session)
  /\ \A i \in 1..Len(log) :
       (log[i].op = "INSERT" /\ ~log[i].ok) => err \in {"StoreFault", "DataError"}

C2_Step ==
  /\ \A t \in DOMAIN committed :
       t \in DOMAIN committed' /\ committed[t] \subseteq committed'[t]
  /\ (connOpen /\ connOpen') =>
       \A t \in DOMAIN session :
         t \in DOMAIN session' /\ session[t] \subseteq session'[t]

\* C2: every table holds at most one row per timestamp, no insert fails
\* because a timestamp is already there, and a row once in a table stays
\* as it is (the first row written wins) whether the collision is within a
\* batch, across batches, or across archives that resolve to one table.
C2_IgnoreOnCollision == [](C2_State) /\ [][C2_Step]_vars

\* directory 2 was imported into a store that held a row at 00:00:00.110:
\* that row and the first-written .500 row are there, the later ones not
C2_Witness ==
  /\ Succeeded /\ scenario = 2 /\ initial # NoTables
  /\ StoreRow(Stamp(110000), 100000, 100001) \in committed[EurUsd]
  /\ StoreRow(Stamp(500000), 108420, 108429) \in committed[EurUsd]
  /\ Len(processed_tables) = 2

(***************************************************************************)
(* C3                                                                      *)
(***************************************************************************)
\* C3: whenever a run ends well - the first, one after a run that ended
\* well, one after a run that was aborted - the store holds what a single
\* complete run from the initial store leaves; and a run after one that
\* ended well changes nothing and fails for no reason but a store fault.
\* The runs walk the same directory, whose files the file system lists in
\* the same order each time.
C3_RerunSafe ==
  /\ Succeeded => committed = SingleRunResult
  /\ prevOutcome = "returned" =>
       /\ committed = SingleRunResult
       /\ err \in {"none", "StoreFault"}

\* a second run has ended well after the first was aborted by a store
\* fault that left part of directory 2 committed
C3_Witness ==
  /\ Succeeded /\ run = 2 /\ prevOutcome = "ended" /\ faults = 1
  /\ scenario = 2 /\ Len(processed_tables) = 2

(***************************************************************************)
(* C4                                                                      *)
(***************************************************************************)
\* the run ended in the batch last read: a timestamp did not parse, or its
\* insert or its commit failed
BatchFailed ==
  /\ pc = "exited" /\ exitStatus = 1
  /\ \/ err \in {"ValueError", "DataError"}
     \/ /\ err = "StoreFault" /\ Len(log) > 0
        /\ log[Len(log)].op \in {"INSERT", "COMMIT"}

\* the rows of the archive in the batches before the one last read
RowsBeforeBatch ==
  LET entries == Files[fileIdx].entries
      before == ((consumed - 1) \div ChunkSize) * ChunkSize
  IN  CsvRowsUpTo(entries, entryIdx - 1)
        \o SubSeq(entries[entryIdx].rows, 1, before)

C4_BatchAtomic ==
  BatchFailed =>
    /\ Len(processed_tables) = Len(calls) - 1
    /\ committed = [archiveStart EXCEPT ![table_name] =
                      FirstWins(archiveStart[table_name], Values(RowsBeforeBatch))]

\* every batch an insert accepted had numeric bids and asks only
C4_NonNumericFails ==
  \A i \in 1..Len(log) :
    (log[i].op = "INSERT" /\ log[i].ok) =>
      AllNumeric(Chunk(Files[log[i].file].entries[log[i].entry].rows,
                       log[i].first - 1))

\* C4 as claimed: a batch fails on an unparseable timestamp, on a bid or ask
\* that is no number, or on a failed insert; the batches before it stay
\* committed and nothing of it or of a later batch is committed.
C4_Original == C4_BatchAtomic /\ C4_NonNumericFails

\* C4 as amended: when a batch fails - a timestamp does not parse, or the
\* insert or the commit fails - the import of the archive ends with an
\* error, the store holds the rows of the batches before it and no row of
\* it or of a later batch.  A bid or ask that is no number is not looked at
\* by the loader: it fails the batch only if the store refuses the insert.
C4_Amended == C4_BatchAtomic

\* directory 4: the second batch held an unparseable timestamp; the two
\* rows of the first batch are committed
C4_Witness ==
  /\ BatchFailed /\ err = "ValueError" /\ scenario = 4 /\ run = 1
  /\ initial = NoTables
  /\ Timestamps(committed[EurUsd]) = {Stamp(110000), Stamp(500000)}

(***************************************************************************)
(* C5                                                                      *)
(***************************************************************************)
C5_State ==
  /\ err # "none" => pc = "exited"
  /\ err \notin {"none", "SystemExit"} => exitStatus = 1
  /\ Succeeded => (err = "none" /\ Len(processed_tables) = Len(calls))

C5_Step ==
  (err # "none" /\ run' = run) =>
    UNCHANGED << log, committed, calls, processed_tables, pc, exitStatus >>

\* C5: once anything fails the run is over with a non-zero status: nothing
\* more is issued for that archive or a later one, no file is processed
\* after it, and a run that ends well has skipped no archive it began.
C5_ErrorsFatal == [](C5_State) /\ [][C5_Step]_vars

\* directory 3: the second archive's name has one token; the third archive
\* was never handed to process_zip_file
C5_Witness ==
  /\ scenario = 3 /\ err = "IndexError" /\ pc = "exited"
  /\ calls = << 1, 2 >> /\ processed_tables = << <<"A","U","D","U","S","D","_","2","0","2","4","_","0","8">> >>
  /\ Files[3].name = <<"N","Z","D","U","S","D","-","2","0","2","4","-","0","8",".","z","i","p">>
  /\ <<"N","Z","D","U","S","D","_","2","0","2","4","_","0","8">> \notin DOMAIN committed

(***************************************************************************)
(* C6                                                                      *)
(***************************************************************************)
C6_ThreeTokens ==
  (fnOp = "get_table_name" /\ Len(fnArg.tokens) = 3) =>
    fnRes = Ok(fnArg.tokens[1] \o <<"_">> \o fnArg.tokens[2] \o <<"_">> \o fnArg.tokens[3])

\* C6 as claimed: PAIR_YEAR_MONTH for three tokens, an error for any other
\* number of tokens, and no statement for a file with another number.
C6_Original ==
  /\ C6_ThreeTokens
  /\ (fnOp = "get_table_name" /\ Len(fnArg.tokens) # 3) => ~fnRes.ok
  /\ \A i \in 1..Len(log) :
       log[i].file > 0 => NameTokenCount(Files[log[i].file].name) = 3

\* C6 as amended: PAIR_YEAR_MONTH for three tokens; an error (IndexError)
\* for fewer than three, and then no statement is issued for the file; for
\* more than three no error: the first three tokens name the table and the
\* rest are ignored.
C6_Amended ==
  /\ C6_ThreeTokens
  /\ (fnOp = "get_table_name" /\ Len(fnArg.tokens) < 3) =>
       fnRes = Raised("IndexError")
  /\ (fnOp = "get_table_name" /\ Len(fnArg.tokens) > 3) =>
       fnRes = Ok(fnArg.tokens[1] \o <<"_">> \o fnArg.tokens[2] \o <<"_">> \o fnArg.tokens[3])
  /\ \A i \in 1..Len(log) :
       log[i].file > 0 => NameTokenCount(Files[log[i].file].name) >= 3

\* get_table_name was applied to a name of four tokens and returned a name
C6_Witness ==
  /\ fnOp = "get_table_name" /\ Len(fnArg.tokens) = 4 /\ fnRes.ok

(***************************************************************************)
(* C7                                                                      *)
(***************************************************************************)
\* C7: every timestamp handed to the store is cut to three fractional
\* digits: its microseconds are a whole number of milliseconds.
C7_HandedTruncated ==
  \A t \in DOMAIN session : \A r \in session[t] :
    r.timestamp.microsecond % 1000 = 0

(***************************************************************************)
(* C8                                                                      *)
(***************************************************************************)
\* C8: a file is handed to process_zip_file only if its name ends in
\* ".zip" and holds a currency code, and at most once; no statement is
\* issued for any other file; and when the run ends well exactly those
\* files were handed over, each once, each with an entry in the result.
C8_AdmissionFilter ==
  /\ \A k \in 1..Len(calls) : calls[k] \in DocumentedFiles
  /\ \A j, k \in 1..Len(calls) : j < k => calls[j] < calls[k]
  /\ \A i \in 1..Len(log) : log[i].file > 0 => log[i].file \in DocumentedFiles
  /\ Running => \A i \in DocumentedFiles :
                  i < fileIdx => \E k \in 1..Len(calls) : calls[k] = i
  /\ Succeeded => /\ {calls[k] : k \in 1..Len(calls)} = DocumentedFiles
                  /\ Len(processed_tables) = Cardinality(DocumentedFiles)
  /\ fnOp = "Admitted" => fnRes = Ok(DocumentedAdmission(fnArg.name))

\* directory 1 was walked to the end: of its five files the third and the
\* fifth were processed
C8_Witness ==
  /\ Succeeded /\ scenario = 1 /\ calls = << 3, 5 >>
  /\ processed_tables = << EurUsd, <<"G","B","P","J","P","Y","_","2","0","2","4","_","0","9">> >>

(***************************************************************************)
(* C9                                                                      *)
(***************************************************************************)
\* C9: when main finds that the data directory does not exist it exits
\* non-zero with no connection opened and no statement issued; when the
\* directory exists, a run that ends without error has printed the
\* processed tables and exits 0.  (main looks at the directory once the
\* command line has parsed.)
C9_ExitBehaviour ==
  /\ (pc # "off" /\ ArgsParsed /\ ~dirExists) =>
       /\ connections = 0 /\ log = << >> /\ committed = initial
       /\ pc = "exited" => exitStatus = 1
  /\ (pc = "exited" /\ ArgsParsed /\ dirExists /\ err = "none") =>
       /\ exitStatus = 0
       /\ summary = processed_tables

\* main has exited with status 1 because the directory does not exist
C9_Witness ==
  /\ pc = "exited" /\ ArgsParsed /\ ~dirExists /\ exitStatus = 1
  /\ err = "SystemExit" /\ connections = 0

(***************************************************************************)
(* C10                                                                     *)
(***************************************************************************)
\* C10: the statements of a run are in order: a table's CREATE TABLE comes
\* before every insert into it; an insert is followed at once by its
\* commit, so that no more than the last batch is ever uncommitted; the
\* statements of an archive all come before those of the next; the cursor
\* and the connection are closed after the walk is over, and nothing
\* follows.
C10_Sequential ==
  /\ \A i \in 1..Len(log) :
       /\ log[i].op = "INSERT" =>
            \E j \in 1..(i - 1) :
              /\ log[j].op = "CREATE TABLE" /\ log[j].ok
              /\ log[j].table = log[i].table /\ log[j].file = log[i].file
       /\ (log[i].op = "INSERT" /\ i < Len(log)) =>
            /\ log[i + 1].op = "COMMIT"
            /\ log[i + 1].file = log[i].file
       /\ log[i].op = "COMMIT" => (i > 1 /\ log[i - 1].op = "INSERT" /\ log[i - 1].ok)
       /\ log[i].op = "CREATE TABLE" =>
            /\ i > 2
            /\ \/ log[i - 1].op = "USE" /\ log[i - 1].ok
               \/ log[i - 1].op \in {"COMMIT", "CREATE TABLE"} /\ log[i - 1].ok
       /\ log[i].op = "CLOSE CURSOR" =>
            /\ fileIdx > Len(Files)
            /\ \A j \in 1..(i - 1) : log[j].ok
            /\ \/ i = Len(log) /\ ~log[i].ok
               \/ i = Len(log) - 1 /\ log[i].ok /\ log[i + 1].op = "CLOSE CONNECTION"
       /\ log[i].op = "CLOSE CONNECTION" => i = Len(log)
       /\ ~log[i].ok => i = Len(log)
  /\ \A i, j \in 1..Len(log) :
       (i < j /\ log[i].file > 0 /\ log[j].file > 0) => log[i].file <= log[j].file
  /\ (connOpen /\ pc # "commit") => session = committed
  /\ ~connOpen => (pc \in {"main", "exited", "off"})

\* directory 1 was imported: ten statements and the two closes were issued
C10_Witness ==
  /\ Succeeded /\ scenario = 1 /\ run = 1
  /\ Len(log) >= 12
  /\ log[Len(log)].op = "CLOSE CONNECTION"
=============================================================================
